---------------------------- MODULE Spec2Model ----------------------------
(***************************************************************************)
(* A model of the bee colony simulator of src/src/bee_population.py, of    *)
(* its seasonal subclass (seasonal_bee_simulator.py, maramures_calendar.py)*)
(* of simulate_with_weather (weather_integration_example.py) and of the    *)
(* weather provider (weather_model.py).                                    *)
(*                                                                         *)
(* The simulator object is the record `sim`; every method is an operator   *)
(* from an object to the object it leaves behind, and every action applies *)
(* one method (or one iteration of a loop that calls them).  Where a       *)
(* caller holds two objects (two simulators compared side by side, a       *)
(* weather model and a calendar), `sim` is the record of the two.          *)
(* Python's 0-based list index i is the TLA+ sequence index i + 1          *)
(* throughout.                                                             *)
(***************************************************************************)
EXTENDS Integers, Sequences, FiniteSets, TLC

VARIABLES
    sim,        \* the object the caller holds (its attributes), or the two it holds
    pc,         \* where the caller is: "idle", "loop" (inside run_simulation), "done"
    run,        \* the arguments, the loop variable and the result of run_simulation
    step_log,   \* history variable: the locals of each simulate_day call
    loss_day,   \* history variable: the step index before which lose_queen last ran
    last_add    \* history variable: the add_frames call, when it is the latest call

vars == <<sim, pc, run, step_log, loss_day, last_add>>

-----------------------------------------------------------------------------
(* Bounds of the model *)

MaxFrames == 2
MaxAdd == 2
MaxEggRate == 2
MaxWorkerDevDays == 2
MaxDays == 5
MaxFrameDays == 2
SmallCellsPerFrame == 3
QuickQueenDays == 1
MaxQueenDevDays == 2
MaxQueenMatingDays == 2
MaxQueenDays == 7
MaxRunDays == 60

(* Program constants *)

DefaultTotalFrames == 10
DefaultBroodFrames == 6
DefaultAttritionRate == 300
DefaultEggLayingRate == 1100
DefaultWorkerDevDays == 21
DefaultQueenDevDays == 16
DefaultQueenMatingDays == 10
DefaultCellsPerFrame == 7000
OrphanBroodFrames == 7
OrphanQueenLossDay == 3
BeesPerFrame == 3500
UtilizationPct == 85
EggsEnd == 3
LarvaeEnd == 8

-----------------------------------------------------------------------------
(* Helpers: Python built-ins as the code uses them *)

None == <<>>
Some(x) == <<x>>
Val(o) == o[1]

Min(a, b) == IF a < b THEN a ELSE b

Max(a, b) == IF a > b THEN a ELSE b

\* int(num / den) for den > 0: the quotient, truncated toward zero
PyInt(num, den) == IF num >= 0 THEN num \div den ELSE -((-num) \div den)

RECURSIVE Sum(_)
Sum(s) == IF s = <<>> THEN 0 ELSE Head(s) + Sum(Tail(s))

\* list[a:b] for 0 <= a, 0 <= b
PySlice(s, a, b) == SubSeq(s, a + 1, Min(b, Len(s)))

\* [0] * n
Zeros(n) == [i \in 1..n |-> 0]

\* Mutants of appendleft: a deque without maxlen, and one that drops the left end
appendleft_unbounded(d, x) == <<x>> \o d

appendleft_drops_left(d, x) == <<x>> \o Tail(d)

\* deque.appendleft on a deque that is at its maxlen: the rightmost item is dropped
appendleft(d, x) == <<x>> \o SubSeq(d, 1, Len(d) - 1)


-----------------------------------------------------------------------------
(* BeeHiveSimulator *)

\* __init__: no argument is validated; the object is built from whatever it is given
BeeHiveSimulator(total_frames, initial_brood_frames, attrition_rate, egg_laying_rate, worker_development_days, queen_development_days, queen_mating_days, cells_per_frame) ==
    [ total_frames          |-> total_frames,
      brood_frames          |-> initial_brood_frames,
      cells_per_frame       |-> cells_per_frame,
      attrition_rate        |-> attrition_rate,
      egg_laying_rate       |-> egg_laying_rate,
      worker_dev_days       |-> worker_development_days,
      queen_dev_days        |-> queen_development_days,
      queen_mating_days     |-> queen_mating_days,
      developing_brood      |-> Zeros(worker_development_days),
      adult_bees            |-> initial_brood_frames * BeesPerFrame,
      has_laying_queen      |-> TRUE,
      queen_development_day |-> None,
      has_events            |-> FALSE,      \* hasattr(self, 'events')
      events                |-> <<>>,
      simulation_params     |-> None,       \* _simulation_params, None while absent
      initial_state         |-> None,       \* _initial_*, None while absent
      history               |-> [ day                 |-> <<>>,
                                  adult_bees          |-> <<>>,
                                  total_brood         |-> <<>>,
                                  eggs_laid           |-> <<>>,
                                  bees_emerged        |-> <<>>,
                                  bees_died           |-> <<>>,
                                  eggs                |-> <<>>,
                                  larvae              |-> <<>>,
                                  pupae               |-> <<>>,
                                  brood_occupancy_pct |-> <<>> ] ]

\* int(brood_frames * cells_per_frame * 0.85): int() truncates toward zero, and
\* the float product agrees with the exact one
get_max_brood_capacity(s) ==
    PyInt(s.brood_frames * s.cells_per_frame * UtilizationPct, 100)

get_current_brood_count(s) == Sum(s.developing_brood)

\* Mutant of get_brood_by_stage: the docstring's last days 2, 7 and 20 taken as the
\* ends of the slices
get_brood_by_stage_inclusive_ends(s) ==
    [ eggs   |-> Sum(PySlice(s.developing_brood, 0, EggsEnd - 1)),
      larvae |-> Sum(PySlice(s.developing_brood, EggsEnd, LarvaeEnd - 1)),
      pupae  |-> Sum(PySlice(s.developing_brood, LarvaeEnd, Len(s.developing_brood) - 1)) ]

\* (eggs, larvae, pupae): the slices [0:3], [3:8] and [8:] of the pipeline
get_brood_by_stage(s) ==
    [ eggs   |-> Sum(PySlice(s.developing_brood, 0, EggsEnd)),
      larvae |-> Sum(PySlice(s.developing_brood, EggsEnd, LarvaeEnd)),
      pupae  |-> Sum(PySlice(s.developing_brood, LarvaeEnd, Len(s.developing_brood))) ]

\* The float (current_brood / max_capacity) * 100.0 is kept as the exact fraction
\* num / den; 0.0 when the capacity is 0
get_brood_occupancy_percentage(s) ==
    IF get_max_brood_capacity(s) = 0
    THEN [num |-> 0, den |-> 1]
    ELSE [num |-> get_current_brood_count(s) * 100, den |-> get_max_brood_capacity(s)]

\* len(self.history['day']) if self.history['day'] else 0
CurrentDay(s) == Len(s.history.day)

Event(day, event_type, details) ==
    [day |-> day, event_type |-> event_type, details |-> details]

RecordEvent(s, e) ==
    IF s.has_events THEN [s EXCEPT !.events = Append(@, e)] ELSE s

\* Mutant of add_frames: the request is not capped at total_frames
add_frames_uncapped(s, num_frames) ==
    [s EXCEPT !.brood_frames = @ + num_frames]

add_frames(s, num_frames) ==
    LET old_count    == s.brood_frames
        new_count    == Min(s.brood_frames + num_frames, s.total_frames)
        actual_added == new_count - old_count
        s1           == [s EXCEPT !.brood_frames = new_count]
    IN  RecordEvent(s1, Event(CurrentDay(s1), "frame_addition",
                              [requested |-> num_frames, added |-> actual_added,
                               new_total |-> new_count]))

\* Mutant of lose_queen: the development counter starts at 1
lose_queen_from_one(s, day) ==
    [s EXCEPT !.has_laying_queen = FALSE, !.queen_development_day = Some(1)]

lose_queen(s, day) ==
    LET s1 == [s EXCEPT !.has_laying_queen = FALSE, !.queen_development_day = Some(0)]
    IN  RecordEvent(s1, Event(day, "queen_loss", [emergency_cells_started |-> TRUE]))

\* Mutant of QueenDevelopment: the queen starts laying one day early
QueenDevelopmentEarly(s, day) ==
    IF ~s.has_laying_queen /\ s.queen_development_day # None
    THEN LET d == Val(s.queen_development_day) + 1
         IN  IF d = s.queen_dev_days + s.queen_mating_days - 1
             THEN [s EXCEPT !.has_laying_queen = TRUE, !.queen_development_day = None]
             ELSE [s EXCEPT !.queen_development_day = Some(d)]
    ELSE s

\* Mutant of QueenDevelopment: queen_emerged is emitted on every step up to
\* queen_dev_days (<= in place of ==)
QueenDevelopmentRepeats(s, day) ==
    IF ~s.has_laying_queen /\ s.queen_development_day # None
    THEN LET d  == Val(s.queen_development_day) + 1
             s1 == [s EXCEPT !.queen_development_day = Some(d)]
         IN  IF d <= s.queen_dev_days
             THEN RecordEvent(s1, Event(day, "queen_emerged", [development_day |-> d]))
             ELSE IF d = s.queen_dev_days + s.queen_mating_days
                  THEN RecordEvent([s1 EXCEPT !.has_laying_queen = TRUE,
                                              !.queen_development_day = None],
                                   Event(day, "queen_mated", [started_laying |-> TRUE]))
                  ELSE s1
    ELSE s

\* Mutant of QueenDevelopment: the counter is kept when the queen starts laying
QueenDevelopmentKeepsCounter(s, day) ==
    IF ~s.has_laying_queen /\ s.queen_development_day # None
    THEN LET d  == Val(s.queen_development_day) + 1
             s1 == [s EXCEPT !.queen_development_day = Some(d)]
         IN  IF d = s.queen_dev_days
             THEN RecordEvent(s1, Event(day, "queen_emerged", [development_day |-> d]))
             ELSE IF d = s.queen_dev_days + s.queen_mating_days
                  THEN RecordEvent([s1 EXCEPT !.has_laying_queen = TRUE],
                                   Event(day, "queen_mated", [started_laying |-> TRUE]))
                  ELSE s1
    ELSE s

\* simulate_day, step 4: the replacement queen's development, after the day's laying
QueenDevelopment(s, day) ==
    IF ~s.has_laying_queen /\ s.queen_development_day # None
    THEN LET d  == Val(s.queen_development_day) + 1
             s1 == [s EXCEPT !.queen_development_day = Some(d)]
         IN  IF d = s.queen_dev_days
             THEN RecordEvent(s1, Event(day, "queen_emerged", [development_day |-> d]))
             ELSE IF d = s.queen_dev_days + s.queen_mating_days
                  THEN RecordEvent([s1 EXCEPT !.has_laying_queen = TRUE,
                                              !.queen_development_day = None],
                                   Event(day, "queen_mated", [started_laying |-> TRUE]))
                  ELSE s1
    ELSE s

\* simulate_day, step 1: min(self.attrition_rate, self.adult_bees)
BeesDied(s) == Min(s.attrition_rate, s.adult_bees)

\* Mutant of BeesEmerged: the youngest cohort is read, developing_brood[0]
BeesEmergedYoungest(s) == s.developing_brood[1]

\* simulate_day, step 2: self.developing_brood[-1]
BeesEmerged(s) == s.developing_brood[Len(s.developing_brood)]

\* simulate_day, step 3: the space is counted before the emerging cohort leaves the
\* deque (it leaves with the appendleft)
AvailableSpace(s) == get_max_brood_capacity(s) - get_current_brood_count(s)

\* Mutant of EggsLaid: no more eggs than there are adults to tend them
EggsLaidTended(s) ==
    IF s.has_laying_queen
    THEN Min(Min(s.egg_laying_rate, AvailableSpace(s)), s.adult_bees)
    ELSE 0

\* Mutant of EggsLaid: a laying queen fills all the free space, whatever her rate
EggsLaidToCapacity(s) ==
    IF s.has_laying_queen THEN Max(0, AvailableSpace(s)) ELSE 0

EggsLaid(s) ==
    IF s.has_laying_queen THEN Min(s.egg_laying_rate, AvailableSpace(s)) ELSE 0

\* simulate_day, step 5
RecordHistory(s, day, eggs_laid_today, bees_emerged_today, bees_died_today) ==
    LET stage == get_brood_by_stage(s)
    IN  [s EXCEPT !.history.day                 = Append(@, day),
                  !.history.adult_bees          = Append(@, s.adult_bees),
                  !.history.total_brood         = Append(@, get_current_brood_count(s)),
                  !.history.eggs_laid           = Append(@, eggs_laid_today),
                  !.history.bees_emerged        = Append(@, bees_emerged_today),
                  !.history.bees_died           = Append(@, bees_died_today),
                  !.history.eggs                = Append(@, stage.eggs),
                  !.history.larvae              = Append(@, stage.larvae),
                  !.history.pupae               = Append(@, stage.pupae),
                  !.history.brood_occupancy_pct = Append(@, get_brood_occupancy_percentage(s))]

simulate_day(s, day) ==
    LET bees_died_today    == BeesDied(s)
        bees_emerged_today == BeesEmerged(s)
        eggs_laid_today    == EggsLaid(s)
        s3 == [s EXCEPT !.adult_bees = (@ - bees_died_today) + bees_emerged_today,
                        !.developing_brood = appendleft(@, eggs_laid_today)]
        s4 == QueenDevelopment(s3, day)
    IN  RecordHistory(s4, day, eggs_laid_today, bees_emerged_today, bees_died_today)

\* The locals of one simulate_day call, as they stand when the step uses them
StepLocals(s) ==
    [ adult_before    |-> s.adult_bees,
      brood_before    |-> get_current_brood_count(s),
      max_capacity    |-> get_max_brood_capacity(s),
      available_space |-> AvailableSpace(s),
      laying          |-> s.has_laying_queen,
      brood_frames    |-> s.brood_frames,
      attrition_rate  |-> s.attrition_rate,
      egg_laying_rate |-> s.egg_laying_rate ]

-----------------------------------------------------------------------------
(* Direct use of the object: a caller constructs a simulator and calls           *)
(* add_frames, lose_queen and simulate_day in any order                          *)

AttritionRates == {1, BeesPerFrame * MaxFrames}

\* `result` is what the run_simulation call gave its caller: "pending" until it ends
NoRun ==
    [num_days |-> 0, frames_to_add |-> <<>>, queen_loss_day |-> None, day |-> 0,
     result |-> "pending"]

Init ==
    /\ \E total_frames \in 0..MaxFrames, initial_brood_frames \in 0..MaxFrames,
          attrition_rate \in AttritionRates, egg_laying_rate \in 0..MaxEggRate,
          worker_development_days \in 1..MaxWorkerDevDays :
            sim = BeeHiveSimulator(total_frames, initial_brood_frames, attrition_rate,
                                   egg_laying_rate, worker_development_days,
                                   QuickQueenDays, QuickQueenDays, SmallCellsPerFrame)
    /\ pc = "idle"
    /\ run = NoRun
    /\ step_log = <<>>
    /\ loss_day = None
    /\ last_add = None

\* One add_frames call; `logged` says whether the call is kept in last_add
CallAddFrames(logged) ==
    /\ pc = "idle"
    /\ \E num_frames \in 0..MaxAdd :
          /\ sim' = add_frames(sim, num_frames)
          /\ last_add' = IF logged
                         THEN Some([requested |-> num_frames, old_count |-> sim.brood_frames])
                         ELSE None
    /\ UNCHANGED <<pc, run, step_log, loss_day>>

AddFrames == CallAddFrames(FALSE)

LoseQueen ==
    /\ pc = "idle"
    /\ sim' = lose_queen(sim, CurrentDay(sim))
    /\ loss_day' = Some(CurrentDay(sim))
    /\ last_add' = None
    /\ UNCHANGED <<pc, run, step_log>>

\* One simulate_day call, the caller passing the index of the day as run_simulation does
StepDay(limit) ==
    /\ pc = "idle"
    /\ CurrentDay(sim) < limit
    /\ sim' = simulate_day(sim, CurrentDay(sim))
    /\ step_log' = Append(step_log, StepLocals(sim))
    /\ last_add' = None
    /\ UNCHANGED <<pc, run, loss_day>>

SimulateDay == StepDay(MaxDays)

Next == AddFrames \/ LoseQueen \/ SimulateDay

Spec == Init /\ [][Next]_vars

-----------------------------------------------------------------------------
(* The same direct use, on one small hive, with the queen's timeline varying     *)

QueenInit ==
    /\ \E queen_development_days \in 1..MaxQueenDevDays,
          queen_mating_days \in 1..MaxQueenMatingDays,
          egg_laying_rate \in 0..1 :
            sim = BeeHiveSimulator(1, 1, 1, egg_laying_rate, 1, queen_development_days,
                                   queen_mating_days, SmallCellsPerFrame)
    /\ pc = "idle"
    /\ run = NoRun
    /\ step_log = <<>>
    /\ loss_day = None
    /\ last_add = None

QueenSimulateDay == StepDay(MaxQueenDays)

QueenNext == AddFrames \/ LoseQueen \/ QueenSimulateDay

QueenSpec == QueenInit /\ [][QueenNext]_vars

-----------------------------------------------------------------------------
(* The same direct use, with each add_frames call kept in last_add               *)

LoggedAddFrames == CallAddFrames(TRUE)

FrameSimulateDay == StepDay(MaxFrameDays)

FrameNext == LoggedAddFrames \/ LoseQueen \/ FrameSimulateDay

FrameSpec == Init /\ [][FrameNext]_vars

-----------------------------------------------------------------------------
(* run_simulation: the caller constructs a simulator and runs it for num_days,   *)
(* with a frame schedule and an optional queen loss day                          *)

\* frames_to_add={1: 2, 10: 1, 20: 1} of orphan_strategy.py
OrphanSchedule == (1 :> 2) @@ (10 :> 1) @@ (20 :> 1)

RunInit ==
    /\ \E initial_brood_frames \in {0, DefaultBroodFrames, OrphanBroodFrames},
          egg_laying_rate \in {0, DefaultEggLayingRate},
          worker_development_days \in {MaxWorkerDevDays, DefaultWorkerDevDays},
          queen_development_days \in {MaxQueenDevDays, DefaultQueenDevDays},
          queen_mating_days \in {MaxQueenMatingDays, DefaultQueenMatingDays} :
            sim = BeeHiveSimulator(DefaultTotalFrames, initial_brood_frames,
                                   DefaultAttritionRate, egg_laying_rate,
                                   worker_development_days, queen_development_days,
                                   queen_mating_days, DefaultCellsPerFrame)
    /\ pc = "idle"
    /\ run = NoRun
    /\ step_log = <<>>
    /\ loss_day = None
    /\ last_add = None

\* run_simulation up to its loop: the arguments are stored, the event log is created
\* if there is none, the initial state is kept if none was kept before
RunSimulation ==
    /\ pc = "idle"
    /\ \E num_days \in {0, MaxRunDays}, frames_to_add \in {<<>>, OrphanSchedule},
          queen_loss_day \in {None, Some(OrphanQueenLossDay)} :
          /\ run' = [num_days |-> num_days, frames_to_add |-> frames_to_add,
                     queen_loss_day |-> queen_loss_day, day |-> 0,
                     result |-> "pending"]
          /\ sim' = [sim EXCEPT
                       !.simulation_params = Some([num_days |-> num_days,
                                                   frames_to_add |-> frames_to_add,
                                                   queen_loss_day |-> queen_loss_day]),
                       !.has_events = TRUE,
                       !.initial_state =
                           IF @ = None
                           THEN Some([adult_bees |-> sim.adult_bees,
                                      brood_frames |-> sim.brood_frames,
                                      has_laying_queen |-> sim.has_laying_queen])
                           ELSE @]
    /\ pc' = "loop"
    /\ UNCHANGED <<step_log, loss_day, last_add>>

\* The events of the day, in the order the loop applies them
AfterAddFrames(s, day) ==
    IF day \in DOMAIN run.frames_to_add THEN add_frames(s, run.frames_to_add[day]) ELSE s

QueenLostToday(day) == run.queen_loss_day # None /\ day = Val(run.queen_loss_day)

AfterLoseQueen(s, day) == IF QueenLostToday(day) THEN lose_queen(s, day) ELSE s

\* Mutant of RunSimulationDay: the day is stepped first, its events applied after
RunSimulationDayStepFirst ==
    /\ pc = "loop"
    /\ run.day < run.num_days
    /\ LET day == run.day
       IN  /\ sim' = AfterLoseQueen(AfterAddFrames(simulate_day(sim, day), day), day)
           /\ step_log' = Append(step_log, StepLocals(sim))
           /\ loss_day' = IF QueenLostToday(day) THEN Some(CurrentDay(sim)) ELSE loss_day
    /\ run' = [run EXCEPT !.day = @ + 1]
    /\ UNCHANGED <<pc, last_add>>

\* One iteration of the loop of run_simulation: add_frames, lose_queen, simulate_day
RunSimulationDay ==
    /\ pc = "loop"
    /\ run.day < run.num_days
    /\ LET day == run.day
           s2  == AfterLoseQueen(AfterAddFrames(sim, day), day)
       IN  /\ sim' = simulate_day(s2, day)
           /\ step_log' = Append(step_log, StepLocals(s2))
           /\ loss_day' = IF QueenLostToday(day) THEN Some(CurrentDay(sim)) ELSE loss_day
    /\ run' = [run EXCEPT !.day = @ + 1]
    /\ UNCHANGED <<pc, last_add>>

\* The loop is over: run_simulation returns self
RunSimulationReturn ==
    /\ pc = "loop"
    /\ run.day = run.num_days
    /\ pc' = "done"
    /\ run' = [run EXCEPT !.result = "self"]
    /\ UNCHANGED <<sim, step_log, loss_day, last_add>>

RunNext == RunSimulation \/ RunSimulationDay \/ RunSimulationReturn

RunSpec == RunInit /\ [][RunNext]_vars

-----------------------------------------------------------------------------
(* MaramuresCalendar: intensities and modifiers are kept in hundredths, so the   *)
(* float 0.4 is the integer 40                                                   *)

FlowPeriod(name, start_day, end_day, nectar_intensity, pollen_intensity, egg_rate_modifier, attrition_modifier) ==
    [ name               |-> name,
      start_day          |-> start_day,
      end_day            |-> end_day,
      nectar_intensity   |-> nectar_intensity,
      pollen_intensity   |-> pollen_intensity,
      egg_rate_modifier  |-> egg_rate_modifier,
      attrition_modifier |-> attrition_modifier ]

is_active(flow, day_of_year) ==
    flow.start_day <= day_of_year /\ day_of_year <= flow.end_day

MaramuresCalendar(flow_periods) == [flow_periods |-> flow_periods]

get_active_flows(calendar, day_of_year) ==
    SelectSeq(calendar.flow_periods, LAMBDA flow : is_active(flow, day_of_year))

\* max(...) over a non-empty collection
MaxOf(S) == CHOOSE x \in S : \A y \in S : y <= x

\* The dearth factors when no flow is active, else the maximum of each factor
\* over the active flows
get_daily_factors(calendar, day_of_year) ==
    LET active_flows == get_active_flows(calendar, day_of_year)
        over(field(_)) == MaxOf({field(active_flows[i]) : i \in DOMAIN active_flows})
    IN  IF active_flows = <<>>
        THEN [ nectar_availability |-> 10,
               pollen_availability |-> 20,
               egg_rate_modifier   |-> 40,
               attrition_modifier  |-> 30,
               active_flow_names   |-> <<>> ]
        ELSE [ nectar_availability |-> over(LAMBDA f : f.nectar_intensity),
               pollen_availability |-> over(LAMBDA f : f.pollen_intensity),
               egg_rate_modifier   |-> over(LAMBDA f : f.egg_rate_modifier),
               attrition_modifier  |-> over(LAMBDA f : f.attrition_modifier),
               active_flow_names   |-> [i \in DOMAIN active_flows |-> active_flows[i].name] ]

\* Days before each month in a non-leap year
days_before_month == <<0, 31, 59, 90, 120, 151, 181, 212, 243, 273, 304, 334>>

\* date(2023, 1, 1) + timedelta(days=day_of_year - 1), kept as (month, day)
\* instead of its "%b %d" text
day_of_year_to_date_string(day_of_year) ==
    LET month == MaxOf({m \in 1..12 : days_before_month[m] < day_of_year})
    IN  <<month, day_of_year - days_before_month[month]>>

-----------------------------------------------------------------------------
(* SeasonalBeeSimulator(BeeHiveSimulator), src/src/seasonal_bee_simulator.py     *)

DaysPerYear == 365

date_to_day_of_year(date) == days_before_month[date[1]] + date[2]

\* __init__: the base object built with the base rates, the calendar attributes
\* and six more history columns
SeasonalBeeSimulator(calendar, start_date, base_egg_laying_rate, base_attrition_rate, total_frames, initial_brood_frames, worker_development_days, queen_development_days, queen_mating_days, cells_per_frame) ==
    LET base == BeeHiveSimulator(total_frames, initial_brood_frames, base_attrition_rate,
                                 base_egg_laying_rate, worker_development_days,
                                 queen_development_days, queen_mating_days, cells_per_frame)
    IN  [ calendar             |-> calendar,
          start_date           |-> start_date,
          base_egg_laying_rate |-> base_egg_laying_rate,
          base_attrition_rate  |-> base_attrition_rate,
          current_day_of_year  |-> date_to_day_of_year(start_date) ]
        @@ [base EXCEPT !.history = @ @@ [ calendar_date       |-> <<>>,
                                           active_flows        |-> <<>>,
                                           effective_egg_rate  |-> <<>>,
                                           effective_attrition |-> <<>>,
                                           nectar_availability |-> <<>>,
                                           pollen_availability |-> <<>> ]]

\* isinstance(s, SeasonalBeeSimulator)
IsSeasonal(s) == "calendar" \in DOMAIN s

\* Mutant of EffectiveRate: the floor of the rates is 1
EffectiveRateAtLeastOne(base_rate, modifier) == Max(1, PyInt(base_rate * modifier, 100))

\* max(0, int(base_rate * modifier))
EffectiveRate(base_rate, modifier) == Max(0, PyInt(base_rate * modifier, 100))

EffectiveEggRate(s) ==
    EffectiveRate(s.base_egg_laying_rate,
                  get_daily_factors(s.calendar, s.current_day_of_year).egg_rate_modifier)

EffectiveAttrition(s) ==
    EffectiveRate(s.base_attrition_rate,
                  get_daily_factors(s.calendar, s.current_day_of_year).attrition_modifier)

\* The object as the base step sees it: the rates are the day's effective rates
WithEffectiveRates(s) ==
    [s EXCEPT !.egg_laying_rate = EffectiveEggRate(s),
              !.attrition_rate  = EffectiveAttrition(s)]

\* Mutant of seasonal_simulate_day: after the step the rate fields are set to the
\* base rates
seasonal_simulate_day_resets_to_base(s, day) ==
    LET factors  == get_daily_factors(s.calendar, s.current_day_of_year)
        stepped  == simulate_day(WithEffectiveRates(s), day)
        restored == [stepped EXCEPT !.egg_laying_rate = s.base_egg_laying_rate,
                                    !.attrition_rate  = s.base_attrition_rate]
    IN  [restored EXCEPT
            !.history.calendar_date       = Append(@, day_of_year_to_date_string(s.current_day_of_year)),
            !.history.active_flows        = Append(@, factors.active_flow_names),
            !.history.effective_egg_rate  = Append(@, EffectiveEggRate(s)),
            !.history.effective_attrition = Append(@, EffectiveAttrition(s)),
            !.history.nectar_availability = Append(@, factors.nectar_availability),
            !.history.pollen_availability = Append(@, factors.pollen_availability),
            !.current_day_of_year         = (@ % DaysPerYear) + 1]

\* Mutant of seasonal_simulate_day: the day of year wraps one day late,
\* (current_day_of_year + 1) % 366 in place of (current_day_of_year % 365) + 1
seasonal_simulate_day_wraps_late(s, day) ==
    LET factors  == get_daily_factors(s.calendar, s.current_day_of_year)
        stepped  == simulate_day(WithEffectiveRates(s), day)
        restored == [stepped EXCEPT !.egg_laying_rate = s.egg_laying_rate,
                                    !.attrition_rate  = s.attrition_rate]
    IN  [restored EXCEPT
            !.history.calendar_date       = Append(@, day_of_year_to_date_string(s.current_day_of_year)),
            !.history.active_flows        = Append(@, factors.active_flow_names),
            !.history.effective_egg_rate  = Append(@, EffectiveEggRate(s)),
            !.history.effective_attrition = Append(@, EffectiveAttrition(s)),
            !.history.nectar_availability = Append(@, factors.nectar_availability),
            !.history.pollen_availability = Append(@, factors.pollen_availability),
            !.current_day_of_year         = (@ + 1) % (DaysPerYear + 1)]

\* SeasonalBeeSimulator.simulate_day: the base step under the effective rates, the
\* rates restored, the six seasonal columns appended, the day of year advanced
seasonal_simulate_day(s, day) ==
    LET factors  == get_daily_factors(s.calendar, s.current_day_of_year)
        stepped  == simulate_day(WithEffectiveRates(s), day)
        restored == [stepped EXCEPT !.egg_laying_rate = s.egg_laying_rate,
                                    !.attrition_rate  = s.attrition_rate]
    IN  [restored EXCEPT
            !.history.calendar_date       = Append(@, day_of_year_to_date_string(s.current_day_of_year)),
            !.history.active_flows        = Append(@, factors.active_flow_names),
            !.history.effective_egg_rate  = Append(@, EffectiveEggRate(s)),
            !.history.effective_attrition = Append(@, EffectiveAttrition(s)),
            !.history.nectar_availability = Append(@, factors.nectar_availability),
            !.history.pollen_availability = Append(@, factors.pollen_availability),
            !.current_day_of_year         = (@ % DaysPerYear) + 1]

-----------------------------------------------------------------------------
(* Both run loops: a caller constructs a BeeHiveSimulator or a                   *)
(* SeasonalBeeSimulator on a small hive and calls its run_simulation             *)

LoopTotalFrames == 4
LoopRate == 10

\* A calendar without flows, and one whose flows overlap and leave gaps
Calendars ==
    { MaramuresCalendar(<<>>),
      MaramuresCalendar(<< FlowPeriod("Hazelnut/Alder", 51, 62, 10, 70, 60, 15),
                           FlowPeriod("Plum (Prun)", 61, 70, 70, 90, 130, 20),
                           FlowPeriod("Winter Dormancy", 1, 50, 0, 0, 5, 10) >>) }

\* March 1st, the default, and a start two days before the year wraps
StartDates == { <<3, 1>>, <<12, 30>> }

LoopInit ==
    /\ \E seasonal \in BOOLEAN, calendar \in Calendars, start_date \in StartDates,
          egg_laying_rate \in {0, LoopRate},
          initial_brood_frames \in 1..MaxFrames,
          worker_development_days \in 1..MaxWorkerDevDays,
          queen_development_days \in 1..MaxQueenDevDays,
          queen_mating_days \in 1..MaxQueenMatingDays :
            sim = IF seasonal
                  THEN SeasonalBeeSimulator(calendar, start_date, egg_laying_rate, LoopRate,
                                            LoopTotalFrames, initial_brood_frames,
                                            worker_development_days, queen_development_days,
                                            queen_mating_days, SmallCellsPerFrame)
                  ELSE BeeHiveSimulator(LoopTotalFrames, initial_brood_frames, LoopRate,
                                        egg_laying_rate, worker_development_days,
                                        queen_development_days, queen_mating_days,
                                        SmallCellsPerFrame)
    /\ pc = "idle"
    /\ run = NoRun
    /\ step_log = <<>>
    /\ loss_day = None
    /\ last_add = None

\* BeeHiveSimulator.run_simulation, which a SeasonalBeeSimulator overrides
BaseRunSimulation == ~IsSeasonal(sim) /\ RunSimulation

\* SeasonalBeeSimulator.run_simulation up to its loop: nothing is stored on the
\* object, and no event log is created
SeasonalRunSimulation ==
    /\ pc = "idle"
    /\ IsSeasonal(sim)
    /\ \E num_days \in {0, MaxRunDays}, frames_to_add \in {<<>>, OrphanSchedule},
          queen_loss_day \in {None, Some(OrphanQueenLossDay)} :
          run' = [num_days |-> num_days, frames_to_add |-> frames_to_add,
                  queen_loss_day |-> queen_loss_day, day |-> 0, result |-> "pending"]
    /\ pc' = "seasonal_loop"
    /\ UNCHANGED <<sim, step_log, loss_day, last_add>>

\* One iteration of its loop: add_frames, lose_queen, the seasonal simulate_day
SeasonalRunSimulationDay ==
    /\ pc = "seasonal_loop"
    /\ run.day < run.num_days
    /\ LET day == run.day
           s2  == AfterLoseQueen(AfterAddFrames(sim, day), day)
       IN  /\ sim' = seasonal_simulate_day(s2, day)
           /\ step_log' = Append(step_log, StepLocals(WithEffectiveRates(s2)))
           /\ loss_day' = IF QueenLostToday(day) THEN Some(CurrentDay(sim)) ELSE loss_day
    /\ run' = [run EXCEPT !.day = @ + 1]
    /\ UNCHANGED <<pc, last_add>>

\* The loop is over: the final report reads history['calendar_date'][-1], which
\* raises IndexError while no day was ever stepped; the method has no return
\* statement, so the caller gets None
SeasonalRunSimulationReturn ==
    /\ pc = "seasonal_loop"
    /\ run.day = run.num_days
    /\ pc' = "done"
    /\ run' = [run EXCEPT !.result = IF sim.history.calendar_date = <<>>
                                     THEN "IndexError" ELSE "None"]
    /\ UNCHANGED <<sim, step_log, loss_day, last_add>>

LoopNext ==
    \/ BaseRunSimulation
    \/ RunSimulationDay
    \/ RunSimulationReturn
    \/ SeasonalRunSimulation
    \/ SeasonalRunSimulationDay
    \/ SeasonalRunSimulationReturn

LoopSpec == LoopInit /\ [][LoopNext]_vars

-----------------------------------------------------------------------------
(* Direct stepping with rates of either sign: a caller constructs either         *)
(* simulator with any integer rates and calls its simulate_day                   *)

MaxRateDays == 3

RateInit ==
    /\ \E seasonal \in BOOLEAN, calendar \in Calendars,
          egg_laying_rate \in {-LoopRate, 0, LoopRate},
          attrition_rate \in {-LoopRate, 0, LoopRate},
          initial_brood_frames \in 1..MaxFrames,
          worker_development_days \in 1..MaxWorkerDevDays :
            sim = IF seasonal
                  THEN SeasonalBeeSimulator(calendar, <<3, 1>>, egg_laying_rate,
                                            attrition_rate, MaxFrames, initial_brood_frames,
                                            worker_development_days, QuickQueenDays,
                                            QuickQueenDays, SmallCellsPerFrame)
                  ELSE BeeHiveSimulator(MaxFrames, initial_brood_frames, attrition_rate,
                                        egg_laying_rate, worker_development_days,
                                        QuickQueenDays, QuickQueenDays, SmallCellsPerFrame)
    /\ pc = "idle"
    /\ run = NoRun
    /\ step_log = <<>>
    /\ loss_day = None
    /\ last_add = None

\* BeeHiveSimulator.simulate_day, called on a base simulator
BaseSimulateDay == ~IsSeasonal(sim) /\ StepDay(MaxRateDays)

\* SeasonalBeeSimulator.simulate_day, called on a seasonal simulator
SeasonalStepDay(limit) ==
    /\ pc = "idle"
    /\ IsSeasonal(sim)
    /\ CurrentDay(sim) < limit
    /\ sim' = seasonal_simulate_day(sim, CurrentDay(sim))
    /\ step_log' = Append(step_log, StepLocals(WithEffectiveRates(sim)))
    /\ last_add' = None
    /\ UNCHANGED <<pc, run, loss_day>>

SeasonalSimulateDay == SeasonalStepDay(MaxRateDays)

RateNext == BaseSimulateDay \/ SeasonalSimulateDay \/ LoseQueen

RateSpec == RateInit /\ [][RateNext]_vars

-----------------------------------------------------------------------------
(* Construction with any configuration: a caller passes any integers for         *)
(* cells_per_frame and the three day counts, then uses the object it gets        *)

MaxConfigDays == 2

\* BeeHiveSimulator(...) as the caller sees it: deque(maxlen=n) raises ValueError
\* for n < 0, and nothing else in __init__ looks at the arguments
Constructed(worker_development_days) == worker_development_days >= 0

ConfigInit ==
    /\ \E cells_per_frame \in {-SmallCellsPerFrame, 0, SmallCellsPerFrame},
          worker_development_days \in -1..MaxWorkerDevDays,
          queen_development_days \in -1..QuickQueenDays,
          queen_mating_days \in -1..QuickQueenDays :
            IF Constructed(worker_development_days)
            THEN /\ sim = BeeHiveSimulator(1, 1, 1, 1, worker_development_days,
                                           queen_development_days, queen_mating_days,
                                           cells_per_frame)
                 /\ pc = "idle"
            ELSE /\ sim = None
                 /\ pc = "ValueError"
    /\ run = NoRun
    /\ step_log = <<>>
    /\ loss_day = None
    /\ last_add = None

\* One simulate_day call; on an empty deque developing_brood[-1] raises IndexError
\* after the day's mortality was taken from adult_bees
ConfigSimulateDay ==
    /\ pc = "idle"
    /\ CurrentDay(sim) < MaxConfigDays
    /\ IF sim.developing_brood = <<>>
       THEN /\ sim' = [sim EXCEPT !.adult_bees = @ - BeesDied(sim)]
            /\ pc' = "IndexError"
            /\ UNCHANGED step_log
       ELSE /\ sim' = simulate_day(sim, CurrentDay(sim))
            /\ step_log' = Append(step_log, StepLocals(sim))
            /\ UNCHANGED pc
    /\ last_add' = None
    /\ UNCHANGED <<run, loss_day>>

ConfigNext == ConfigSimulateDay \/ LoseQueen

ConfigSpec == ConfigInit /\ [][ConfigNext]_vars

-----------------------------------------------------------------------------
(* The resource ledger of the seasonal extension.  The callers of the ledger     *)
(* (simulate_with_weather, SimulationReporter, SimulationPlotter) are in         *)
(* src/src; the simulator that keeps it is not, and is written here from         *)
(* section 4.5 of the specification.  Honey is counted in milligrams, and a      *)
(* product with a fraction is truncated to a whole milligram.                    *)

\* production_kg = foragers * effective_nectar_per_forager / nectar_to_honey_ratio:
\* the forager fraction rises from 25% to 35% with the nectar availability, a
\* forager brings 150 mg at full availability, and 2.5 mg of nectar make 1 mg of honey
HoneyProduction(adult_bees, nectar_availability) ==
    LET forager_fraction == 25 + PyInt(10 * nectar_availability, 100)
        foragers         == PyInt(adult_bees * forager_fraction, 100)
    IN  PyInt(foragers * 150 * nectar_availability * 10, 100 * 25)

\* consumption_kg = adult_bees * 0.00001 + brood_count * 0.000001
HoneyConsumption(adult_bees, brood_count) == adult_bees * 10 + brood_count

\* A seasonal simulator that keeps the ledger: honey_stores and three more columns
WithResourceLedger(s, honey_stores) ==
    [honey_stores |-> honey_stores]
    @@ [s EXCEPT !.history = @ @@ [ daily_honey_production  |-> <<>>,
                                    daily_honey_consumption |-> <<>>,
                                    honey_stores            |-> <<>> ]]

\* 'daily_honey_production' in simulator.history
TracksHoney(s) == "daily_honey_production" \in DOMAIN s.history

\* Its simulate_day: the seasonal step, then the day's honey balance on the step's
\* outputs, stores_kg = clamp(stores_kg + production - consumption, 0, inf)
resource_simulate_day(s, day) ==
    LET factors     == get_daily_factors(s.calendar, s.current_day_of_year)
        stepped     == seasonal_simulate_day(s, day)
        production  == HoneyProduction(stepped.adult_bees, factors.nectar_availability)
        consumption == HoneyConsumption(stepped.adult_bees, get_current_brood_count(stepped))
        stores      == Max(0, s.honey_stores + production - consumption)
    IN  [stepped EXCEPT !.honey_stores                    = stores,
                        !.history.daily_honey_production  = Append(@, production),
                        !.history.daily_honey_consumption = Append(@, consumption),
                        !.history.honey_stores            = Append(@, stores)]

\* simulator.simulate_day(day): the method of the simulator's class
dispatch_simulate_day(s, day) ==
    IF ~IsSeasonal(s) THEN simulate_day(s, day)
    ELSE IF TracksHoney(s) THEN resource_simulate_day(s, day)
    ELSE seasonal_simulate_day(s, day)

\* The locals of that call
DispatchLocals(s) == StepLocals(IF IsSeasonal(s) THEN WithEffectiveRates(s) ELSE s)

-----------------------------------------------------------------------------
(* simulate_with_weather of src/src/weather_integration_example.py: a caller     *)
(* constructs a simulator, steps it directly or hands a seasonal one to          *)
(* simulate_with_weather with a weather table                                    *)

MaxWeatherDays == 3

\* Rows of the weather table: foraging_modifier and brood_rearing_modifier, in
\* hundredths
WeatherRows ==
    { [foraging_modifier |-> 100, brood_rearing_modifier |-> 100],
      [foraging_modifier |-> 20,  brood_rearing_modifier |-> 50],
      [foraging_modifier |-> 0,   brood_rearing_modifier |-> 0] }

\* 0 kg and 1 kg of honey at the start
InitialStores == {0, 1000000}

WeatherInit ==
    /\ \E calendar \in Calendars, worker_development_days \in 1..MaxWorkerDevDays,
          kind \in {"base", "seasonal", "resource"}, honey_stores \in InitialStores :
            LET seasonal == SeasonalBeeSimulator(calendar, <<3, 1>>, LoopRate, LoopRate,
                                                 MaxFrames, 1, worker_development_days,
                                                 QuickQueenDays, QuickQueenDays,
                                                 SmallCellsPerFrame)
            IN  sim = CASE kind = "base" ->
                             BeeHiveSimulator(MaxFrames, 1, LoopRate, LoopRate,
                                              worker_development_days, QuickQueenDays,
                                              QuickQueenDays, SmallCellsPerFrame)
                        [] kind = "seasonal" -> seasonal
                        [] kind = "resource" -> WithResourceLedger(seasonal, honey_stores)
    /\ pc = "idle"
    /\ run = NoRun
    /\ step_log = <<>>
    /\ loss_day = None
    /\ last_add = None

\* One direct simulate_day call on whichever simulator the caller has
DirectSimulateDay ==
    /\ pc = "idle"
    /\ CurrentDay(sim) < MaxWeatherDays
    /\ sim' = dispatch_simulate_day(sim, CurrentDay(sim))
    /\ step_log' = Append(step_log, DispatchLocals(sim))
    /\ last_add' = None
    /\ UNCHANGED <<pc, run, loss_day>>

\* simulate_with_weather up to its loop: the base rates are kept aside
SimulateWithWeather ==
    /\ pc = "idle"
    /\ IsSeasonal(sim)
    /\ run' = [num_days |-> MaxWeatherDays, day |-> 0, result |-> "pending",
               original_egg_rate  |-> sim.base_egg_laying_rate,
               original_attrition |-> sim.base_attrition_rate,
               weather_row |-> None]
    /\ pc' = "weather_loop"
    /\ UNCHANGED <<sim, step_log, loss_day, last_add>>

\* The loop body up to the simulate_day call: the day's base rates are set from the
\* weather row, and the day is stepped
WeatherSimulateDay ==
    /\ pc = "weather_loop"
    /\ run.day < run.num_days
    /\ \E weather_row \in WeatherRows :
          LET s1 == [sim EXCEPT
                        !.base_egg_laying_rate =
                            PyInt(run.original_egg_rate * weather_row.brood_rearing_modifier, 100),
                        !.base_attrition_rate =
                            IF weather_row.foraging_modifier < 30
                            THEN PyInt(run.original_attrition * 110, 100)
                            ELSE run.original_attrition]
          IN  /\ sim' = dispatch_simulate_day(s1, run.day)
              /\ step_log' = Append(step_log, DispatchLocals(s1))
              /\ run' = [run EXCEPT !.weather_row = Some(weather_row)]
    /\ pc' = "weather_adjust"
    /\ UNCHANGED <<loss_day, last_add>>

\* list[-1] = f(list[-1])
SetLast(s, x) == [s EXCEPT ![Len(s)] = x]

\* The rest of the loop body: when the simulator keeps the ledger, the day's
\* production is scaled by the foraging modifier in place, and the loss is taken
\* from the day's recorded stores and from honey_stores
WeatherAdjust ==
    /\ pc = "weather_adjust"
    /\ LET foraging_mod        == Val(run.weather_row).foraging_modifier
           current_production  == sim.history.daily_honey_production[Len(sim.history.daily_honey_production)]
           adjusted_production == PyInt(current_production * foraging_mod, 100)
           production_loss     == current_production - adjusted_production
       IN  sim' = IF TracksHoney(sim) /\ Len(sim.history.daily_honey_production) > 0
                  THEN [sim EXCEPT
                           !.history.daily_honey_production = SetLast(@, adjusted_production),
                           !.history.honey_stores = SetLast(@, @[Len(@)] - production_loss),
                           !.honey_stores = @ - production_loss]
                  ELSE sim
    /\ run' = [run EXCEPT !.day = @ + 1, !.weather_row = None]
    /\ pc' = "weather_loop"
    /\ UNCHANGED <<step_log, loss_day, last_add>>

\* The loop is over: the base rates are restored, to_dataframes() is returned
SimulateWithWeatherReturn ==
    /\ pc = "weather_loop"
    /\ run.day = run.num_days
    /\ sim' = [sim EXCEPT !.base_egg_laying_rate = run.original_egg_rate,
                          !.base_attrition_rate  = run.original_attrition]
    /\ run' = [run EXCEPT !.result = "dataframes"]
    /\ pc' = "done"
    /\ UNCHANGED <<step_log, loss_day, last_add>>

WeatherNext ==
    \/ DirectSimulateDay
    \/ SimulateWithWeather
    \/ WeatherSimulateDay
    \/ WeatherAdjust
    \/ SimulateWithWeatherReturn

WeatherSpec == WeatherInit /\ [][WeatherNext]_vars

-----------------------------------------------------------------------------
(* Direct use with pipelines of every length around the two stage boundaries:    *)
(* shorter than the egg band, ending inside the larva band, longer than both     *)

MaxStageDevDays == 10
MaxStageDays == 11

StageInit ==
    /\ \E worker_development_days \in 1..MaxStageDevDays, egg_laying_rate \in 1..2 :
            sim = BeeHiveSimulator(1, 1, 1, egg_laying_rate, worker_development_days,
                                   QuickQueenDays, QuickQueenDays, DefaultCellsPerFrame)
    /\ pc = "idle"
    /\ run = NoRun
    /\ step_log = <<>>
    /\ loss_day = None
    /\ last_add = None

StageSimulateDay == StepDay(MaxStageDays)

StageNext == LoseQueen \/ StageSimulateDay

StageSpec == StageInit /\ [][StageNext]_vars

-----------------------------------------------------------------------------
(* Two simulators side by side: a caller constructs a SeasonalBeeSimulator and   *)
(* a BeeHiveSimulator from the same arguments and makes the same calls on both.  *)
(* Here sim holds the two objects, [seasonal |-> ..., base |-> ...]. Under a     *)
(* calendar of UnitCalendars the base object runs with its own rates; under any  *)
(* other calendar the caller sets its rates to the day's effective rates before  *)
(* each step                                                                     *)

MaxTwinDays == 4

\* A calendar whose egg and attrition modifiers are 1.0 on every day of the year
UnitCalendars ==
    { MaramuresCalendar(<< FlowPeriod("Constant", 1, DaysPerYear, 50, 50, 100, 100) >>) }

TwinInit ==
    /\ \E calendar \in Calendars \cup UnitCalendars, start_date \in StartDates,
          egg_laying_rate \in {0, LoopRate},
          initial_brood_frames \in 1..MaxFrames,
          worker_development_days \in 1..MaxWorkerDevDays :
            sim = [ seasonal |->
                        SeasonalBeeSimulator(calendar, start_date, egg_laying_rate,
                                             LoopRate, LoopTotalFrames,
                                             initial_brood_frames, worker_development_days,
                                             QuickQueenDays, QuickQueenDays,
                                             SmallCellsPerFrame),
                    base |->
                        BeeHiveSimulator(LoopTotalFrames, initial_brood_frames, LoopRate,
                                         egg_laying_rate, worker_development_days,
                                         QuickQueenDays, QuickQueenDays,
                                         SmallCellsPerFrame) ]
    /\ pc = "idle"
    /\ run = NoRun
    /\ step_log = <<>>
    /\ loss_day = None
    /\ last_add = None

TwinAddFrames ==
    /\ pc = "idle"
    /\ \E num_frames \in 0..MaxAdd :
          sim' = [ seasonal |-> add_frames(sim.seasonal, num_frames),
                   base     |-> add_frames(sim.base, num_frames) ]
    /\ last_add' = None
    /\ UNCHANGED <<pc, run, step_log, loss_day>>

TwinLoseQueen ==
    /\ pc = "idle"
    /\ sim' = [ seasonal |-> lose_queen(sim.seasonal, CurrentDay(sim.seasonal)),
                base     |-> lose_queen(sim.base, CurrentDay(sim.base)) ]
    /\ loss_day' = Some(CurrentDay(sim.seasonal))
    /\ last_add' = None
    /\ UNCHANGED <<pc, run, step_log>>

\* The base object as its step sees it
TwinBase ==
    IF sim.seasonal.calendar \in UnitCalendars
    THEN sim.base
    ELSE [sim.base EXCEPT !.egg_laying_rate = EffectiveEggRate(sim.seasonal),
                          !.attrition_rate  = EffectiveAttrition(sim.seasonal)]

TwinSimulateDay ==
    /\ pc = "idle"
    /\ CurrentDay(sim.seasonal) < MaxTwinDays
    /\ sim' = [ seasonal |-> seasonal_simulate_day(sim.seasonal, CurrentDay(sim.seasonal)),
                base     |-> simulate_day(TwinBase, CurrentDay(sim.base)) ]
    /\ step_log' = Append(step_log, StepLocals(TwinBase))
    /\ last_add' = None
    /\ UNCHANGED <<pc, run, loss_day>>

TwinNext == TwinAddFrames \/ TwinLoseQueen \/ TwinSimulateDay

TwinSpec == TwinInit /\ [][TwinNext]_vars

-----------------------------------------------------------------------------
(* WeatherModel, src/src/weather_model.py. Temperatures are in hundredths of a   *)
(* degree, hours in hundredths of an hour, modifiers and probabilities in        *)
(* hundredths. The generator self.rng is a stream of draws and the number of     *)
(* draws taken from it: a draw is a function of both, as in a seeded             *)
(* RandomState; a draw is a uniform number of hundredths, from which the         *)
(* normal draws take one of three levels                                         *)

\* np.random.RandomState(seed)
RandomState(stream) == [stream |-> stream, draws |-> 0]

\* The draw that n earlier draws leave next in the stream
Uniform(rng, n) ==
    LET k == rng.draws + n
    IN  (rng.stream * 37 + k * 61 + k * k * 7 + 11) % 100

\* rng.normal(0, sigma): a deviation of -sigma, 0 or sigma
Normal(rng, n, sigma) ==
    IF Uniform(rng, n) < 16 THEN -sigma ELSE IF Uniform(rng, n) >= 84 THEN sigma ELSE 0

\* __init__: the generator is seeded with weather_seed, or from the system when it
\* is None (`entropy` is what the system gave)
WeatherModel(start_date, weather_seed, entropy) ==
    [ start_date   |-> start_date,
      weather_seed |-> weather_seed,
      rng          |-> RandomState(IF weather_seed # None THEN Val(weather_seed)
                                   ELSE entropy) ]

\* annual_avg_temp + temp_amplitude * sin(radians(360/365 * (day - 105)))
\* + altitude_correction at 220 m, for the first days of May and of June
SeasonalTemp ==
    (121 :> 1316) @@ (122 :> 1353) @@ (123 :> 1389) @@ (124 :> 1425) @@ (125 :> 1461) @@ (126 :> 1496) @@
    (152 :> 2310) @@ (153 :> 2336) @@ (154 :> 2361) @@ (155 :> 2386) @@ (156 :> 2411) @@ (157 :> 2435)

\* _calculate_day_length at latitude 47.66, for the same days
DayLength ==
    (121 :> 1426) @@ (122 :> 1431) @@ (123 :> 1437) @@ (124 :> 1441) @@ (125 :> 1446) @@ (126 :> 1451) @@
    (152 :> 1552) @@ (153 :> 1554) @@ (154 :> 1557) @@ (155 :> 1559) @@ (156 :> 1561) @@ (157 :> 1563)

\* _calculate_temperature: two normal draws
calculate_temperature(rng, day_of_year) ==
    LET avg_temp     == SeasonalTemp[day_of_year] + Normal(rng, 0, 200)
        daily_spread == 800 + Normal(rng, 1, 150)
    IN  [ min_temp |-> avg_temp - daily_spread \div 2,
          max_temp |-> avg_temp + daily_spread \div 2,
          avg_temp |-> avg_temp ]

\* The season factor of _calculate_precipitation
SeasonRainFactor(day_of_year) ==
    IF 60 <= day_of_year /\ day_of_year < 152 THEN 120
    ELSE IF 152 <= day_of_year /\ day_of_year < 244 THEN 130
    ELSE IF 244 <= day_of_year /\ day_of_year < 335 THEN 110
    ELSE 80

\* _calculate_precipitation: one uniform draw against
\* (annual_rainy_days / 365) * season_factor; a rainy day takes one more draw for
\* the amount
calculate_precipitation(rng, day_of_year) ==
    Uniform(rng, 2) < (120 * SeasonRainFactor(day_of_year)) \div 365

\* cloud_cover = 0.7 if is_rainy else self.rng.uniform(0.1, 0.4)
CloudCover(rng, is_rainy) ==
    IF is_rainy THEN 70 ELSE 10 + (Uniform(rng, 3) * 30) \div 100

\* _calculate_useful_sunlight: min(daylight * 0.7 * (1 - cloud_cover * 0.4), 10.0)
calculate_useful_sunlight(day_of_year, cloud_cover) ==
    Min((DayLength[day_of_year] * 7 * (1000 - 4 * cloud_cover)) \div 10000, 1000)

calculate_foraging_modifier(temp_avg, temp_max, is_rainy, useful_sunlight) ==
    LET temp_modifier ==
            IF temp_max < 1500 THEN 0
            ELSE IF temp_max < 1800 THEN ((temp_max - 1500) * 50) \div 300
            ELSE IF temp_avg < 2000 THEN 50 + PyInt((temp_avg - 1800) * 30, 200)
            ELSE IF temp_avg <= 3000 THEN 100
            ELSE Max(80, 100 - ((temp_avg - 3000) * 20) \div 1000)
        sunlight_modifier == Min(100, useful_sunlight \div 10)
    IN  IF is_rainy THEN 0
        ELSE Max(0, Min(100, PyInt(temp_modifier * sunlight_modifier, 100)))

calculate_brood_rearing_modifier(temp_avg, temp_min) ==
    IF temp_avg < 1000 THEN 0
    ELSE IF temp_avg < 1200 THEN ((temp_avg - 1000) * 30) \div 200
    ELSE IF temp_avg < 1500 THEN 30 + ((temp_avg - 1200) * 40) \div 300
    ELSE 100

\* One iteration of the loop of generate_weather: the row of the day
WeatherRow(rng, day, day_of_year) ==
    LET temperature == calculate_temperature(rng, day_of_year)
        is_rainy    == calculate_precipitation(rng, day_of_year)
        useful_sun  == calculate_useful_sunlight(day_of_year, CloudCover(rng, is_rainy))
    IN  [ day                    |-> day,
          day_of_year            |-> day_of_year,
          temp_avg               |-> temperature.avg_temp,
          is_rainy               |-> is_rainy,
          foraging_modifier      |->
              calculate_foraging_modifier(temperature.avg_temp, temperature.max_temp,
                                          is_rainy, useful_sun),
          brood_rearing_modifier |->
              calculate_brood_rearing_modifier(temperature.avg_temp,
                                               temperature.min_temp) ]

\* The draws of one day: two for the temperature, one for the rain, one for the
\* amount of rain or for the cloud cover
DrawsPerDay == 4

\* generate_weather: current_doy = ((start_doy + day - 1) % 365) + 1, the day of
\* year of row `day`
current_doy(start_date, day) ==
    ((date_to_day_of_year(start_date) + day - 1) % DaysPerYear) + 1

\* generate_weather: the rows of days 0 .. num_days - 1 from start_date on, and the
\* generator as the call leaves it
generate_weather(weather, num_days) ==
    LET rng_on(day) == [weather.rng EXCEPT !.draws = @ + DrawsPerDay * day]
    IN  [ data |-> [ n \in 1..num_days |->
                        WeatherRow(rng_on(n - 1), n - 1,
                                   current_doy(weather.start_date, n - 1)) ],
          rng  |-> rng_on(num_days) ]

-----------------------------------------------------------------------------
(* The providers on their own: a caller holds a WeatherModel and a calendar      *)
(* (here sim holds the two objects) and asks them for weather and for daily      *)
(* factors; run keeps what each call returned                                    *)

MaxGenDays == 2
MaxGenerateCalls == 2
MaxFactorCalls == 2

WeatherStartDates == {<<5, 1>>, <<6, 1>>}
WeatherSeeds == {None, Some(1), Some(42)}
Entropy == 0..2
FactorDays == {1, 55, 61, 100}

ProviderInit ==
    /\ \E start_date \in WeatherStartDates, weather_seed \in WeatherSeeds,
          entropy \in Entropy, calendar \in Calendars :
            sim = [ weather  |-> WeatherModel(start_date, weather_seed, entropy),
                    calendar |-> calendar ]
    /\ pc = "idle"
    /\ run = [generated |-> <<>>, factors |-> <<>>]
    /\ step_log = <<>>
    /\ loss_day = None
    /\ last_add = None

GenerateWeather ==
    /\ Len(run.generated) < MaxGenerateCalls
    /\ \E num_days \in 1..MaxGenDays :
          LET generated == generate_weather(sim.weather, num_days)
          IN  /\ sim' = [sim EXCEPT !.weather.rng = generated.rng]
              /\ run' = [run EXCEPT !.generated = Append(@, generated.data)]
    /\ UNCHANGED <<pc, step_log, loss_day, last_add>>

GetDailyFactors ==
    /\ Len(run.factors) < MaxFactorCalls
    /\ \E day_of_year \in FactorDays :
          run' = [run EXCEPT !.factors =
                      Append(@, [ day_of_year |-> day_of_year,
                                  factors |-> get_daily_factors(sim.calendar,
                                                                day_of_year) ])]
    /\ UNCHANGED <<sim, pc, step_log, loss_day, last_add>>

ProviderNext == GenerateWeather \/ GetDailyFactors

ProviderSpec == ProviderInit /\ [][ProviderNext]_vars

-----------------------------------------------------------------------------
(* One queen loss and the steps after it, for every queen timeline the           *)
(* constructor takes from 0 days on. The caller keeps stepping: simulate_day is  *)
(* taken as long as the run has days left                                        *)

RecoveryInit ==
    /\ \E queen_development_days \in 0..MaxQueenDevDays,
          queen_mating_days \in 0..MaxQueenMatingDays,
          egg_laying_rate \in 0..1 :
            sim = BeeHiveSimulator(1, 1, 1, egg_laying_rate, 1, queen_development_days,
                                   queen_mating_days, SmallCellsPerFrame)
    /\ pc = "idle"
    /\ run = NoRun
    /\ step_log = <<>>
    /\ loss_day = None
    /\ last_add = None

\* lose_queen, called once
LoseQueenOnce == loss_day = None /\ LoseQueen

RecoverySimulateDay == StepDay(MaxQueenDays)

RecoveryNext == LoseQueenOnce \/ RecoverySimulateDay

RecoverySpec ==
    RecoveryInit /\ [][RecoveryNext]_vars /\ WF_vars(RecoverySimulateDay)

-----------------------------------------------------------------------------
(* A seasonal simulator stepped directly, by a caller that sets its base rates   *)
(* between the steps as the loop of simulate_with_weather does, so that the rate *)
(* fields and the base rates differ when simulate_day is called                  *)

RestoreInit ==
    /\ \E calendar \in Calendars, egg_laying_rate \in {0, LoopRate},
          initial_brood_frames \in 1..MaxFrames,
          worker_development_days \in 1..MaxWorkerDevDays :
            sim = SeasonalBeeSimulator(calendar, <<3, 1>>, egg_laying_rate, LoopRate,
                                       MaxFrames, initial_brood_frames,
                                       worker_development_days, QuickQueenDays,
                                       QuickQueenDays, SmallCellsPerFrame)
    /\ pc = "idle"
    /\ run = NoRun
    /\ step_log = <<>>
    /\ loss_day = None
    /\ last_add = None

\* simulator.base_egg_laying_rate = int(original_egg_rate * brood_mod), and the
\* attrition raised by a tenth on a day of poor foraging; the original rates are
\* those the simulator was constructed with
SetBaseRates ==
    /\ pc = "idle"
    /\ \E weather_row \in WeatherRows :
          sim' = [sim EXCEPT
                     !.base_egg_laying_rate =
                         PyInt(sim.egg_laying_rate * weather_row.brood_rearing_modifier, 100),
                     !.base_attrition_rate =
                         IF weather_row.foraging_modifier < 30
                         THEN PyInt(sim.attrition_rate * 110, 100)
                         ELSE sim.attrition_rate]
    /\ UNCHANGED <<pc, run, step_log, loss_day, last_add>>

RestoreSimulateDay == SeasonalStepDay(MaxRateDays)

RestoreNext == SetBaseRates \/ RestoreSimulateDay \/ LoseQueen

RestoreSpec == RestoreInit /\ [][RestoreNext]_vars

-----------------------------------------------------------------------------
(* Two BeeHiveSimulator objects built from the same arguments, the second with   *)
(* its adult_bees set to another number before the first call; the caller makes  *)
(* the same calls on both. Here sim holds the two objects,                       *)
(* [first |-> ..., second |-> ...], and step_log the locals of the second        *)

MaxPairDays == 3

\* adult_bees of the second object: none, or a single bee
OtherAdults == {0, 1}

PairInit ==
    /\ \E initial_brood_frames \in 1..MaxFrames, attrition_rate \in AttritionRates,
          egg_laying_rate \in {0, MaxEggRate},
          worker_development_days \in 1..MaxWorkerDevDays,
          adult_bees \in OtherAdults :
            LET s == BeeHiveSimulator(MaxFrames, initial_brood_frames, attrition_rate,
                                      egg_laying_rate, worker_development_days,
                                      QuickQueenDays, QuickQueenDays, SmallCellsPerFrame)
            IN  sim = [ first |-> s, second |-> [s EXCEPT !.adult_bees = adult_bees] ]
    /\ pc = "idle"
    /\ run = NoRun
    /\ step_log = <<>>
    /\ loss_day = None
    /\ last_add = None

PairAddFrames ==
    /\ pc = "idle"
    /\ \E num_frames \in 0..MaxAdd :
          sim' = [ first  |-> add_frames(sim.first, num_frames),
                   second |-> add_frames(sim.second, num_frames) ]
    /\ last_add' = None
    /\ UNCHANGED <<pc, run, step_log, loss_day>>

PairLoseQueen ==
    /\ pc = "idle"
    /\ sim' = [ first  |-> lose_queen(sim.first, CurrentDay(sim.first)),
                second |-> lose_queen(sim.second, CurrentDay(sim.second)) ]
    /\ loss_day' = Some(CurrentDay(sim.first))
    /\ last_add' = None
    /\ UNCHANGED <<pc, run, step_log>>

PairSimulateDay ==
    /\ pc = "idle"
    /\ CurrentDay(sim.first) < MaxPairDays
    /\ sim' = [ first  |-> simulate_day(sim.first, CurrentDay(sim.first)),
                second |-> simulate_day(sim.second, CurrentDay(sim.second)) ]
    /\ step_log' = Append(step_log, StepLocals(sim.second))
    /\ last_add' = None
    /\ UNCHANGED <<pc, run, loss_day>>

PairNext == PairAddFrames \/ PairLoseQueen \/ PairSimulateDay

PairSpec == PairInit /\ [][PairNext]_vars

-----------------------------------------------------------------------------
(* run_simulation on a simulator that has days behind it: the caller steps some  *)
(* days directly before the run, or calls run_simulation again after it returned *)

MaxPreDays == 2

RerunInit ==
    /\ \E egg_laying_rate \in {0, DefaultEggLayingRate} :
            sim = BeeHiveSimulator(DefaultTotalFrames, DefaultBroodFrames,
                                   DefaultAttritionRate, egg_laying_rate,
                                   DefaultWorkerDevDays, MaxQueenDevDays,
                                   MaxQueenMatingDays, DefaultCellsPerFrame)
    /\ pc = "idle"
    /\ run = NoRun
    /\ step_log = <<>>
    /\ loss_day = None
    /\ last_add = None

\* simulate_day called directly, before any run
PreSimulateDay == StepDay(MaxPreDays)

\* run_simulation has returned and the caller goes on, with the same simulator, as
\* long as it has fewer than two full runs behind it
CallerResumes ==
    /\ pc = "done"
    /\ CurrentDay(sim) < 2 * MaxRunDays
    /\ pc' = "idle"
    /\ UNCHANGED <<sim, run, step_log, loss_day, last_add>>

RerunNext ==
    \/ PreSimulateDay
    \/ RunSimulation
    \/ RunSimulationDay
    \/ RunSimulationReturn
    \/ CallerResumes

RerunSpec == RerunInit /\ [][RerunNext]_vars

-----------------------------------------------------------------------------
(* Claims *)

Days == 1..Len(sim.history.day)

\* C1: the bees_emerged recorded on day n is the eggs_laid recorded on day
\* n - worker_development_days, and 0 on the days before worker_development_days
C1_CohortShift ==
    \A n \in Days :
        sim.history.bees_emerged[n] =
            IF n - 1 < sim.worker_dev_days THEN 0
            ELSE sim.history.eggs_laid[n - sim.worker_dev_days]

C1_Witness ==
    \E n \in Days : n - 1 >= sim.worker_dev_days /\ sim.worker_dev_days > 1
                    /\ sim.history.bees_emerged[n] > 0

\* C2: bees_died is min(attrition_rate, adult_bees before the step) on every day,
\* and adult_bees is never negative
C2_MortalityFloor ==
    /\ \A n \in Days :
          sim.history.bees_died[n] = Min(step_log[n].attrition_rate, step_log[n].adult_before)
    /\ sim.adult_bees >= 0

\* C3: on a day with a laying queen, available_space < egg_laying_rate gives
\* eggs_laid = max(0, available_space); eggs_laid is never negative and never
\* more than egg_laying_rate
C3_CapacityClamp ==
    \A n \in Days :
        /\ (step_log[n].laying /\ step_log[n].available_space < step_log[n].egg_laying_rate)
              => sim.history.eggs_laid[n] = Max(0, step_log[n].available_space)
        /\ sim.history.eggs_laid[n] >= 0
        /\ sim.history.eggs_laid[n] <= step_log[n].egg_laying_rate

\* C4: the brood count after a step is the count before it, minus bees_emerged,
\* plus eggs_laid
C4_Conservation ==
    \A n \in Days :
        sim.history.total_brood[n] =
            step_log[n].brood_before - sim.history.bees_emerged[n] + sim.history.eggs_laid[n]

C4_Witness ==
    \E n \in Days : /\ sim.history.bees_emerged[n] > 0
                    /\ sim.history.eggs_laid[n] > 0
                    /\ sim.history.eggs_laid[n] # sim.history.bees_emerged[n]

\* C5: the brood count never exceeds get_max_brood_capacity(), every recorded
\* brood_occupancy_pct lies in [0, 100], and it is 0 when the capacity is 0
C5_OccupancyBounds ==
    /\ get_current_brood_count(sim) <= get_max_brood_capacity(sim)
    /\ \A n \in Days :
          LET pct == sim.history.brood_occupancy_pct[n]
          IN  0 <= pct.num /\ pct.num <= 100 * pct.den
    /\ get_max_brood_capacity(sim) = 0 => get_brood_occupancy_percentage(sim).num = 0

\* Whether the queen is laying on day n: as the step of day n found her, or as she
\* is now when day n is the next day to be stepped
QueenLayingOnDay(n) ==
    IF n < Len(step_log) THEN step_log[n + 1].laying ELSE sim.has_laying_queen

\* C6: a queen lost before the step of day D, and not lost again, is laying on day
\* D + queen_development_days + queen_mating_days and on no day from D up to it
C6_QueenLifecycle ==
    loss_day # None =>
        LET D == Val(loss_day)
            T == D + sim.queen_dev_days + sim.queen_mating_days
        IN  \A n \in D..CurrentDay(sim) :
                /\ n < T => ~QueenLayingOnDay(n)
                /\ n = T => QueenLayingOnDay(n)

C6_Witness ==
    /\ loss_day # None
    /\ Val(loss_day) > 0
    /\ sim.queen_dev_days > 1
    /\ sim.queen_mating_days > 1
    /\ CurrentDay(sim) = Val(loss_day) + sim.queen_dev_days + sim.queen_mating_days
    /\ sim.has_laying_queen

QueenLostOnDay3 ==
    /\ pc # "idle"
    /\ run.queen_loss_day = Some(3)
    /\ sim.queen_dev_days = 16
    /\ sim.queen_mating_days = 10

\* C7: with the queen lost on day 3, 16 development days and 10 mating days,
\* eggs_laid is 0 on the days 3..28 and positive on day 29 (the egg rate being
\* positive and the brood chamber having room)
C7_QueenLossScenario ==
    QueenLostOnDay3 =>
        \A n \in Days :
            LET day == n - 1
            IN  /\ (3 <= day /\ day <= 28) => sim.history.eggs_laid[n] = 0
                /\ (day = 29 /\ step_log[n].egg_laying_rate > 0
                             /\ step_log[n].available_space > 0)
                        => sim.history.eggs_laid[n] > 0

C7_Witness ==
    /\ QueenLostOnDay3
    /\ CurrentDay(sim) > 29
    /\ sim.history.eggs_laid[30] > 0
    /\ sim.history.eggs_laid[3] > 0

\* bees_emerged and eggs_laid of day `day` (0-based), once recorded
Emerged(day) == sim.history.bees_emerged[day + 1]
Laid(day) == sim.history.eggs_laid[day + 1]
Recorded(day) == day < CurrentDay(sim)

\* C8: with the queen lost on day 3, bees_emerged on day 3 + worker_development_days - 1
\* is the eggs_laid of day 2, bees_emerged is 0 from day 3 + worker_development_days
\* on, for as many days as eggs_laid was 0 (the days 3..28), and the cohort laid on
\* day 29 emerges on day 29 + worker_development_days
C8_EmergenceGap ==
    QueenLostOnDay3 =>
        LET w == sim.worker_dev_days
        IN  /\ Recorded(2 + w) => Emerged(2 + w) = Laid(2)
            /\ \A day \in (3 + w)..(28 + w) : Recorded(day) => Emerged(day) = 0
            /\ Recorded(29 + w) =>
                  /\ Emerged(29 + w) = Laid(29)
                  /\ Cardinality({day \in (3 + w)..(29 + w) : Emerged(day) = 0})
                        = Cardinality({day \in 3..29 : Laid(day) = 0})

C8_Witness ==
    /\ QueenLostOnDay3
    /\ Recorded(29 + sim.worker_dev_days)
    /\ Emerged(2 + sim.worker_dev_days) > 0
    /\ Emerged(29 + sim.worker_dev_days) > 0
    /\ sim.worker_dev_days = 21

\* C9: an add_frames request larger than total_frames - brood_frames leaves
\* brood_frames = total_frames, and after any add_frames call brood_frames is at
\* most total_frames
C9_FrameCap ==
    last_add # None =>
        /\ sim.brood_frames <= sim.total_frames
        /\ Val(last_add).requested > sim.total_frames - Val(last_add).old_count
              => sim.brood_frames = sim.total_frames

C9_Witness ==
    /\ last_add # None
    /\ Val(last_add).requested > sim.total_frames - Val(last_add).old_count
    /\ Val(last_add).old_count < sim.total_frames
    /\ sim.brood_frames = sim.total_frames

\* C10: 0 <= brood_frames <= total_frames in every state, the state right after
\* construction included
C10_FrameCountInvariant ==
    /\ 0 <= sim.brood_frames
    /\ sim.brood_frames <= sim.total_frames

\* C11: in both run loops the frame addition and the queen loss scheduled for day
\* d are applied before the step of day d: the step of day d uses brood_frames as
\* that day's add_frames left it and the capacity that follows from it, eggs_laid
\* of the queen-loss day is 0, and the days before d are stepped with the frame
\* count and the laying queen that d's events have not touched yet
C11_EventsThenStep ==
    pc # "idle" =>
        \A n \in Days :
            LET day    == n - 1
                locals == step_log[n]
            IN  /\ QueenLostToday(day) => ~locals.laying /\ sim.history.eggs_laid[n] = 0
                /\ (run.queen_loss_day # None /\ day < Val(run.queen_loss_day))
                      => locals.laying
                /\ day >= 1 =>
                      locals.brood_frames =
                          IF day \in DOMAIN run.frames_to_add
                          THEN Min(step_log[n - 1].brood_frames + run.frames_to_add[day],
                                   sim.total_frames)
                          ELSE step_log[n - 1].brood_frames
                /\ locals.max_capacity =
                      (locals.brood_frames * sim.cells_per_frame * UtilizationPct) \div 100
                /\ sim.history.eggs_laid[n] =
                      IF locals.laying
                      THEN Min(locals.egg_laying_rate, locals.max_capacity - locals.brood_before)
                      ELSE 0

C11_Witness ==
    /\ pc = "done"
    /\ IsSeasonal(sim)
    /\ run.queen_loss_day = Some(OrphanQueenLossDay)
    /\ run.frames_to_add = OrphanSchedule
    /\ CurrentDay(sim) = MaxRunDays
    /\ sim.history.eggs_laid[OrphanQueenLossDay] > 0
    /\ sim.history.eggs_laid[OrphanQueenLossDay + 1] = 0
    /\ step_log[2].brood_frames > step_log[1].brood_frames
    /\ step_log[2].max_capacity > step_log[1].max_capacity

\* The rates the caller gave the simulator
EggRateInput(s) == IF IsSeasonal(s) THEN s.base_egg_laying_rate ELSE s.egg_laying_rate
AttritionInput(s) == IF IsSeasonal(s) THEN s.base_attrition_rate ELSE s.attrition_rate

\* C12: in both simulators the rates the daily step uses are never negative, and a
\* negative egg_laying_rate or attrition_rate behaves like a rate of 0: eggs_laid
\* and bees_died of the day are 0, and adult_bees does not grow from mortality
C12_RateClamp ==
    \A n \in Days :
        /\ step_log[n].egg_laying_rate >= 0
        /\ step_log[n].attrition_rate >= 0
        /\ EggRateInput(sim) < 0 => sim.history.eggs_laid[n] = 0
        /\ AttritionInput(sim) < 0 =>
              /\ sim.history.bees_died[n] = 0
              /\ sim.history.adult_bees[n] =
                    step_log[n].adult_before + sim.history.bees_emerged[n]

ValidConfig(s) ==
    /\ s.cells_per_frame > 0
    /\ s.worker_dev_days > 0
    /\ s.queen_dev_days > 0
    /\ s.queen_mating_days > 0

\* C13: a configuration with cells_per_frame <= 0 or with a worker_development_days,
\* queen_development_days or queen_mating_days that is not positive is rejected by
\* the constructor: every simulator that exists, and so every one that is stepped,
\* has a valid configuration
C13_ConfigFailFast ==
    pc # "ValueError" => ValidConfig(sim)

\* C14: the development pipeline always has exactly worker_development_days
\* entries, and every entry is >= 0
C14_PipelineShape ==
    /\ Len(sim.developing_brood) = sim.worker_dev_days
    /\ \A i \in DOMAIN sim.developing_brood : sim.developing_brood[i] >= 0

\* C15: on every laying day eggs_laid is min(egg_laying_rate, capacity minus the
\* brood count left once the emerging cohort is gone), so the cells that today's
\* emergence frees can be refilled the same day
C15_PostEmergenceSpace ==
    \A n \in Days :
        step_log[n].laying =>
            sim.history.eggs_laid[n] =
                Min(step_log[n].egg_laying_rate,
                    step_log[n].max_capacity
                        - (step_log[n].brood_before - sim.history.bees_emerged[n]))

\* C16: every add_frames call appends exactly one frame_addition event, whose
\* details give the requested count, the count actually added (new brood_frames
\* minus old) and the new total
C16_TruncationReported ==
    [][last_add' # None =>
          sim'.events =
              Append(sim.events,
                     Event(CurrentDay(sim), "frame_addition",
                           [requested |-> Val(last_add').requested,
                            added     |-> sim'.brood_frames - sim.brood_frames,
                            new_total |-> sim'.brood_frames]))]_vars

\* The positions in the event log of the events of one type
EventsOfType(event_type) ==
    {i \in DOMAIN sim.events : sim.events[i].event_type = event_type}

SeasonalRunOver ==
    /\ pc = "done"
    /\ IsSeasonal(sim)
    /\ run.num_days = MaxRunDays
    /\ run.frames_to_add = OrphanSchedule
    /\ run.queen_loss_day # None

\* C18: a SeasonalBeeSimulator run through its own run_simulation with a frame
\* schedule and a queen_loss_day has the frame_addition events of the schedule and
\* the queen_loss, queen_emerged and queen_mated events in its event log
C18_SeasonalEventLog ==
    SeasonalRunOver =>
        /\ Cardinality(EventsOfType("frame_addition"))
              = Cardinality(DOMAIN run.frames_to_add)
        /\ Cardinality(EventsOfType("queen_loss")) = 1
        /\ Cardinality(EventsOfType("queen_emerged")) = 1
        /\ Cardinality(EventsOfType("queen_mated")) = 1

\* C19: when run_simulation is over, what it gave its caller is the simulator
\* itself, for a BeeHiveSimulator and for a SeasonalBeeSimulator, for every num_days
C19_RunReturnsSelf ==
    pc = "done" => run.result = "self"

\* C20: every simulate_day call appends exactly one entry to every history
\* column, so all columns have the same length, the number of days stepped, and no
\* step of the program changes an entry that was already written
C20_AppendOnly ==
    [][\A column \in DOMAIN sim.history :
          /\ Len(sim'.history[column]) = Len(step_log')
          /\ Len(sim'.history[column]) =
                Len(sim.history[column]) + (IF step_log' # step_log THEN 1 ELSE 0)
          /\ SubSeq(sim'.history[column], 1, Len(sim.history[column]))
                = sim.history[column]]_vars

\* C21: while a replacement queen is developing, the development counter is 0
\* only on the day the queen was lost, goes up by exactly 1 in each simulate_day
\* call, and no lose_queen or simulate_day call makes it smaller
C21_CounterMonotone ==
    [][/\ sim'.queen_development_day = Some(0) => loss_day' = Some(CurrentDay(sim'))
       /\ (sim.queen_development_day # None /\ sim'.queen_development_day # None) =>
             /\ Val(sim'.queen_development_day) >= Val(sim.queen_development_day)
             /\ step_log' # step_log =>
                   Val(sim'.queen_development_day) = Val(sim.queen_development_day) + 1]_vars

\* C22: in every daily record eggs + larvae + pupae equals total_brood, whatever
\* the length of the pipeline
C22_StagePartition ==
    \A n \in 1..Len(sim.history.day) :
        sim.history.eggs[n] + sim.history.larvae[n] + sim.history.pupae[n]
            = sim.history.total_brood[n]

\* A pipeline that ends inside the larva band, with brood recorded in both of its bands
C22_Witness ==
    /\ sim.worker_dev_days > EggsEnd
    /\ sim.worker_dev_days < LarvaeEnd
    /\ \E n \in 1..Len(sim.history.day) :
          /\ sim.history.eggs[n] > 0
          /\ sim.history.larvae[n] > 0
          /\ sim.history.pupae[n] = 0
          /\ sim.history.total_brood[n] = sim.history.eggs[n] + sim.history.larvae[n]

\* The run of the steady-state scenario: the default hive (6 brood frames of 7000
\* cells, attrition 300, egg rate 1100, 21 days of development), no frame
\* schedule, no queen loss
SteadyRun ==
    /\ pc \in {"loop", "done"}
    /\ run.frames_to_add = <<>>
    /\ run.queen_loss_day = None
    /\ Val(sim.initial_state).brood_frames = DefaultBroodFrames
    /\ sim.egg_laying_rate = DefaultEggLayingRate
    /\ sim.worker_dev_days = DefaultWorkerDevDays

\* C23 as the code has it: the queen lays 1100 = min(1100, free space) on every
\* day, the pipeline fills to 21 * 1100 = 23100 cells and stays there, below the
\* capacity 35700, and adult_bees falls by 300 a day for the first 21 days and
\* rises by 800 a day from then on, to the last day of the run
C23_SteadyState ==
    SteadyRun =>
        \A n \in 1..Len(sim.history.day) :
            /\ sim.history.eggs_laid[n] = DefaultEggLayingRate
            /\ sim.history.eggs_laid[n]
                  = Min(DefaultEggLayingRate, step_log[n].available_space)
            /\ sim.history.total_brood[n]
                  = DefaultEggLayingRate * Min(n, DefaultWorkerDevDays)
            /\ sim.history.total_brood[n] < get_max_brood_capacity(sim)
            /\ sim.history.adult_bees[n]
                  = (DefaultBroodFrames * BeesPerFrame - DefaultAttritionRate * n)
                      + DefaultEggLayingRate * Max(0, n - DefaultWorkerDevDays)

\* The scenario run to its last day, with more adults than at the start
C23_Witness ==
    /\ SteadyRun
    /\ pc = "done"
    /\ Len(sim.history.day) = MaxRunDays
    /\ sim.history.adult_bees[MaxRunDays] > Val(sim.initial_state).adult_bees
    /\ sim.history.adult_bees[DefaultWorkerDevDays] < Val(sim.initial_state).adult_bees

\* C23 as stated: in the scenario adult_bees rises up to some day p, from which it
\* stays level with the brood pipeline at capacity and eggs_laid at
\* min(1100, free space)
C23_UpThenPlateau ==
    (SteadyRun /\ pc = "done" /\ run.num_days = MaxRunDays) =>
        \E p \in 2..(MaxRunDays - 1) :
            /\ \A n \in 1..(p - 1) :
                  sim.history.adult_bees[n] <= sim.history.adult_bees[n + 1]
            /\ sim.history.adult_bees[1] < sim.history.adult_bees[p]
            /\ \A n \in p..MaxRunDays :
                  /\ sim.history.adult_bees[n] = sim.history.adult_bees[p]
                  /\ sim.history.total_brood[n] = get_max_brood_capacity(sim)
                  /\ sim.history.eggs_laid[n]
                        = Min(DefaultEggLayingRate, step_log[n].available_space)

\* C24: after the same calls, a SeasonalBeeSimulator and a BeeHiveSimulator whose
\* steps run with the same rates (its own under a calendar of modifiers 1.0, the
\* day's effective rates otherwise) have the same adult_bees, total_brood,
\* eggs_laid, bees_emerged and bees_died on every day and the same queen state;
\* under modifiers 1.0 the effective rates of every day are the base rates
C24_Reparameterization ==
    /\ \A column \in {"adult_bees", "total_brood", "eggs_laid", "bees_emerged", "bees_died"} :
          sim.seasonal.history[column] = sim.base.history[column]
    /\ sim.seasonal.has_laying_queen = sim.base.has_laying_queen
    /\ sim.seasonal.queen_development_day = sim.base.queen_development_day
    /\ sim.seasonal.developing_brood = sim.base.developing_brood
    /\ sim.seasonal.calendar \in UnitCalendars =>
          /\ sim.base.egg_laying_rate = sim.seasonal.base_egg_laying_rate
          /\ sim.base.attrition_rate = sim.seasonal.base_attrition_rate
          /\ \A n \in 1..Len(sim.seasonal.history.day) :
                /\ sim.seasonal.history.effective_egg_rate[n] = sim.base.egg_laying_rate
                /\ sim.seasonal.history.effective_attrition[n] = sim.base.attrition_rate

\* Under modifiers 1.0: all the days stepped, frames added up to the hive's size, a
\* queen lost on the way, eggs laid on one day and bees dead on every day
C24_Witness ==
    /\ sim.seasonal.calendar \in UnitCalendars
    /\ Len(sim.seasonal.history.day) = MaxTwinDays
    /\ loss_day # None
    /\ sim.seasonal.brood_frames = LoopTotalFrames
    /\ \E n \in 1..MaxTwinDays : sim.seasonal.history.eggs_laid[n] > 0
    /\ \A n \in 1..MaxTwinDays : sim.seasonal.history.bees_died[n] = LoopRate

\* C25: asking the same provider twice gives the same modifiers (the same days
\* generated twice by one WeatherModel, the same day asked twice of one calendar),
\* and no call changes the state of a provider
C25_ProviderPurity ==
    /\ \A i, j \in DOMAIN run.generated :
          \A n \in 1..Min(Len(run.generated[i]), Len(run.generated[j])) :
              /\ run.generated[i][n].foraging_modifier
                    = run.generated[j][n].foraging_modifier
              /\ run.generated[i][n].brood_rearing_modifier
                    = run.generated[j][n].brood_rearing_modifier
    /\ \A i, j \in DOMAIN run.factors :
          run.factors[i].day_of_year = run.factors[j].day_of_year =>
              run.factors[i].factors = run.factors[j].factors
    /\ sim.weather.rng.draws = 0
    /\ sim.calendar \in Calendars

\* C26: the honey store of a simulator that keeps the ledger is never negative,
\* neither the running store nor any recorded entry of it
C26_HoneyFloor ==
    (IsSeasonal(sim) /\ TracksHoney(sim)) =>
        /\ sim.honey_stores >= 0
        /\ \A n \in 1..Len(sim.history.honey_stores) : sim.history.honey_stores[n] >= 0

\* C27: after any sequence of lose_queen and simulate_day calls, has_laying_queen
\* is TRUE exactly when queen_development_day is None
C27_QueenStateConsistent ==
    sim.has_laying_queen <=> (sim.queen_development_day = None)

\* A queen was lost, her replacement developed over the following steps and lays
C27_Witness ==
    /\ loss_day # None
    /\ sim.has_laying_queen
    /\ sim.queen_development_day = None
    /\ CurrentDay(sim) >= Val(loss_day) + sim.queen_dev_days + sim.queen_mating_days
    /\ sim.queen_dev_days + sim.queen_mating_days > 2

\* A queenless colony whose counter is at or past queen_dev_days +
\* queen_mating_days, the one value at which a step makes the queen lay
PastMating ==
    /\ ~sim.has_laying_queen
    /\ sim.queen_development_day # None
    /\ Val(sim.queen_development_day) >= sim.queen_dev_days + sim.queen_mating_days

\* No step brings such a colony back: once past mating, always past mating
PastMatingForGood == [][PastMating => PastMating']_vars

\* C28: after lose_queen, without another lose_queen, the colony regains a laying
\* queen after finitely many simulate_day calls. The counter only goes up and the
\* queen starts laying only in the step that brings it to queen_dev_days +
\* queen_mating_days, so the colony recovers if and only if it is never queenless
\* with the counter at or past that value
C28_QueenRecovers == ~PastMating

\* C29: a SeasonalBeeSimulator.simulate_day call leaves egg_laying_rate,
\* attrition_rate, base_egg_laying_rate and base_attrition_rate as they were, and
\* the effective rates it records for the day are the rates its step used: the
\* rates the base step saw, the mortality and the laying of the day follow from them
C29_RatesRestored ==
    [][step_log' # step_log =>
          LET n == Len(step_log')
          IN  /\ sim'.egg_laying_rate = sim.egg_laying_rate
              /\ sim'.attrition_rate = sim.attrition_rate
              /\ sim'.base_egg_laying_rate = sim.base_egg_laying_rate
              /\ sim'.base_attrition_rate = sim.base_attrition_rate
              /\ sim'.history.effective_egg_rate[n] = step_log'[n].egg_laying_rate
              /\ sim'.history.effective_attrition[n] = step_log'[n].attrition_rate
              /\ sim'.history.bees_died[n]
                    = Min(sim'.history.effective_attrition[n], step_log'[n].adult_before)
              /\ sim'.history.eggs_laid[n]
                    = IF step_log'[n].laying
                      THEN Min(sim'.history.effective_egg_rate[n],
                               step_log'[n].available_space)
                      ELSE 0]_vars

\* A day stepped while the rate fields differed from the base rates, under
\* effective rates that differ from both
C29_Witness ==
    /\ Len(step_log) > 0
    /\ sim.egg_laying_rate # sim.base_egg_laying_rate
    /\ sim.attrition_rate # sim.base_attrition_rate
    /\ sim.history.effective_egg_rate[Len(step_log)] # sim.egg_laying_rate
    /\ sim.history.effective_egg_rate[Len(step_log)] # sim.base_egg_laying_rate
    /\ sim.history.effective_attrition[Len(step_log)] # sim.attrition_rate
    /\ sim.history.bees_died[Len(step_log)] = sim.history.effective_attrition[Len(step_log)]

\* C30: two runs that differ only in the initial adult_bees have the same
\* eggs_laid, bees_emerged, total_brood and stage columns, the same pipeline and
\* the same queen state on every day; a step taken with no adults records no
\* deaths and leaves the bees that emerged that day
C30_NoAdultFeedback ==
    /\ \A column \in {"day", "eggs_laid", "bees_emerged", "total_brood", "eggs",
                     "larvae", "pupae", "brood_occupancy_pct"} :
          sim.first.history[column] = sim.second.history[column]
    /\ sim.first.developing_brood = sim.second.developing_brood
    /\ sim.first.brood_frames = sim.second.brood_frames
    /\ sim.first.has_laying_queen = sim.second.has_laying_queen
    /\ sim.first.queen_development_day = sim.second.queen_development_day
    /\ \A n \in 1..Len(step_log) :
          step_log[n].adult_before = 0 =>
              /\ sim.second.history.bees_died[n] = 0
              /\ sim.second.history.adult_bees[n] = sim.second.history.bees_emerged[n]

\* The second run started without adults and was stepped to the last day, with
\* eggs laid, bees emerged and a queen lost on the way, while the first run had
\* adults on every day
C30_Witness ==
    /\ Len(step_log) = MaxPairDays
    /\ step_log[1].adult_before = 0
    /\ loss_day # None
    /\ \E n \in 1..MaxPairDays : sim.second.history.eggs_laid[n] > 0
    /\ \E n \in 1..MaxPairDays : sim.second.history.bees_emerged[n] > 0
    /\ \A n \in 1..MaxPairDays :
          sim.first.history.adult_bees[n] > sim.second.history.adult_bees[n]

\* C31: the day of year of a seasonal simulator stays in 1..365; after d
\* simulate_day calls it is ((start_day_of_year + d - 1) mod 365) + 1, the day of
\* year generate_weather gives to row d for the same start_date, so it advances by
\* one in each call and wraps from 365 to 1; the date recorded for each day is the
\* date of that day of year
C31_DayOfYear ==
    IsSeasonal(sim) =>
        /\ sim.current_day_of_year \in 1..DaysPerYear
        /\ sim.current_day_of_year = current_doy(sim.start_date, CurrentDay(sim))
        /\ \A n \in 1..Len(sim.history.day) :
              /\ sim.history.day[n] = n - 1
              /\ sim.history.calendar_date[n]
                    = day_of_year_to_date_string(current_doy(sim.start_date, n - 1))

\* A seasonal run from December 30 stepped to its last day: the day of year has
\* wrapped and is below the one it started from
C31_Witness ==
    /\ IsSeasonal(sim)
    /\ CurrentDay(sim) = MaxRunDays
    /\ sim.current_day_of_year < date_to_day_of_year(sim.start_date)
    /\ sim.history.calendar_date[2] = <<12, 31>>
    /\ sim.history.calendar_date[3] = <<1, 1>>

\* C32: every event logged in a step of the program carries the day index that
\* was passed to simulate_day on that day (the entry the same step appends to the
\* day column); this holds for frame_addition events too, also in a second run
\* and after days stepped before the run
C32_EventDayStamps ==
    [][\A i \in (Len(sim.events) + 1)..Len(sim'.events) :
          /\ Len(sim'.history.day) = Len(sim.history.day) + 1
          /\ sim'.events[i].day = sim'.history.day[Len(sim'.history.day)]]_vars

=============================================================================
